---- MODULE Spec2Model ----
(***************************************************************************)
(* Model of the ModelCar pipeline tasks of genai-amep:                     *)
(*   deploy/tasks/s3-integration/upload_model.py        (Model Uploader)   *)
(*   deploy/tasks/register-with-registry/register_s3_model.py (Registrar)  *)
(*   deploy/tasks/s3-integration/s3_uploader.py   (Evaluation Storage)     *)
(*                                                                         *)
(* Strings are sequences of one-character strings, so that formatting,     *)
(* lower-casing, splitting and prefix matching are computed character by   *)
(* character.  A Python Optional[str] is None == <<>> or Some(s) == <<s>>. *)
(***************************************************************************)
EXTENDS Integers, Sequences, FiniteSets, TLC

\* ------------------------------------------------------------------ bounds
\* Largest number of regular files in a local directory tree.
MaxFiles == 2
\* Largest number of evaluation result sets a bucket holds at the start.
MaxSets == 2

\* ----------------------------------------------------------------- strings
None == <<>>
Some(s) == <<s>>

UpperCase == <<"A", "B", "C", "D", "E", "F", "G", "H", "I", "J", "K", "L", "M",
               "N", "O", "P", "Q", "R", "S", "T", "U", "V", "W", "X", "Y", "Z">>
LowerCase == <<"a", "b", "c", "d", "e", "f", "g", "h", "i", "j", "k", "l", "m",
               "n", "o", "p", "q", "r", "s", "t", "u", "v", "w", "x", "y", "z">>

\* str.lower() on one character
LowerChar(c) ==
    IF \E i \in 1..Len(UpperCase) : UpperCase[i] = c
    THEN LowerCase[CHOOSE i \in 1..Len(UpperCase) : UpperCase[i] = c]
    ELSE c

\* str.lower()
Lower(s) == [i \in 1..Len(s) |-> LowerChar(s[i])]

\* str.split(sep) for a one-character separator
RECURSIVE Split(_, _)
Split(s, sep) ==
    IF \E i \in 1..Len(s) : s[i] = sep
    THEN LET i == CHOOSE k \in 1..Len(s) :
                      s[k] = sep /\ \A j \in 1..(k - 1) : s[j] # sep
         IN <<SubSeq(s, 1, i - 1)>> \o Split(SubSeq(s, i + 1, Len(s)), sep)
    ELSE <<s>>

\* Python truthiness of an Optional[str]: None and '' are falsy
Truthy(o) == o # None /\ o[1] # <<>>

\* how an f-string renders an Optional[str]
Fmt(o) == IF o = None THEN <<"N", "o", "n", "e">> ELSE o[1]

\* str.startswith
StartsWith(s, p) == Len(p) <= Len(s) /\ SubSeq(s, 1, Len(p)) = p

\* str(int) for a natural number
RECURSIVE IntToStr(_)
IntToStr(n) ==
    LET Digits == <<"0", "1", "2", "3", "4", "5", "6", "7", "8", "9">>
    IN IF n < 10 THEN <<Digits[n + 1]>>
       ELSE IntToStr(n \div 10) \o <<Digits[(n % 10) + 1]>>

\* `x in xs` for a Python list: None is never equal to a str
InList(o, xs) == o # None /\ \E i \in 1..Len(xs) : xs[i] = o[1]

\* ------------------------------------------------------------- environment
\* The process environment of one pipeline run, shared by its tasks.
EnvValues ==
    [ SKIP_TASK             |-> {None, Some(<<>>), Some(<<"a">>)},
      SKIP_TASKS            |-> {None, Some(<<"b">>), Some(<<"b", ",", "a">>)},
      S3_BUCKET             |-> {None, Some(<<"b", "k">>)},
      AWS_ACCESS_KEY_ID     |-> {None, Some(<<"i", "d">>)},
      AWS_SECRET_ACCESS_KEY |-> {None, Some(<<"s", "k">>)},
      MODEL_NAME            |-> {None, Some(<<"m">>), Some(<<"M">>)},
      MODEL_VERSION         |-> {None, Some(<<"2">>)},
      MODEL_REGISTRY_URL    |-> {None, Some(<<"u">>)} ]

Envs ==
    [ SKIP_TASK : EnvValues.SKIP_TASK,
      SKIP_TASKS : EnvValues.SKIP_TASKS,
      S3_BUCKET : EnvValues.S3_BUCKET,
      AWS_ACCESS_KEY_ID : EnvValues.AWS_ACCESS_KEY_ID,
      AWS_SECRET_ACCESS_KEY : EnvValues.AWS_SECRET_ACCESS_KEY,
      MODEL_NAME : EnvValues.MODEL_NAME,
      MODEL_VERSION : EnvValues.MODEL_VERSION,
      MODEL_REGISTRY_URL : EnvValues.MODEL_REGISTRY_URL ]

\* os.environ.get(name, default)
Get(e, name, default) == IF e[name] = None THEN default ELSE e[name][1]

\* a skip test that compares SKIP_TASK with the whole of SKIP_TASKS
SkipRequestedUnsplit(e) == e.SKIP_TASK # None /\ e.SKIP_TASK[1] = Get(e, "SKIP_TASKS", <<>>)

\* the skip test shared by the Uploader and the Registrar
SkipRequested(e) == InList(e.SKIP_TASK, Split(Get(e, "SKIP_TASKS", <<>>), ","))

\* --------------------------------------------------------- local directories
\* The i-th relative path of a tree:  f, d/f, d/d/f, ...
RelPath(i) == [j \in 1..(2 * (i - 1)) |-> IF j % 2 = 1 THEN "d" ELSE "/"] \o <<"f">>
RelPaths == {RelPath(i) : i \in 1..MaxFiles}
Contents == {<<"x">>, <<"y", "z">>}

\* a directory: whether it exists and, if so, its regular files (path -> bytes)
NoDir == [exists |-> FALSE, files |-> <<>>]
Dirs == {NoDir} \cup
        UNION { {[exists |-> TRUE, files |-> f] : f \in [P -> Contents]} :
                P \in SUBSET RelPaths }

RECURSIVE SumSizes(_, _)
SumSizes(files, P) ==
    IF P = {} THEN 0
    ELSE LET p == CHOOSE q \in P : TRUE
         IN Len(files[p]) + SumSizes(files, P \ {p})

\* total number of bytes of the regular files of a directory
DirBytes(d) == SumSizes(d.files, DOMAIN d.files)

\* ------------------------------------------------------------------- state
VARIABLES
    env,               \* os.environ of the pipeline run
    local_dir,         \* the local directory tree the tasks are pointed at
    model_s3_uri,      \* /workspace/shared-workspace/model_s3_uri (None: absent)
    model_version_id,  \* /workspace/shared-workspace/model_version_id
    registry,          \* the model registry: set of version records
    first_id,          \* what a first-time registration wrote to model_version_id
    up,                \* the Model Uploader process
    reg,               \* the Registrar processes
    bucket,            \* the objects of the evaluation bucket: key -> bytes
    last_upload,       \* what the last evaluation upload returned and stored
    cli                \* the Evaluation Storage Utility process

vars == <<env, local_dir, model_s3_uri, model_version_id, registry, first_id,
          up, reg, bucket, last_upload, cli>>

Procs == {1, 2}

UploaderIdle ==
    [ pc |-> "idle", exit |-> 0, skipped |-> FALSE,
      bucket_name |-> None, access_key |-> None, secret_key |-> None,
      model_name |-> None, model_version |-> <<>>,
      model_dir |-> NoDir, s3_prefix |-> <<>>, todo |-> {},
      uploaded_count |-> 0, total_size |-> 0, failed |-> {},
      reported |-> <<>>, puts |-> <<>>, log |-> <<>> ]

RegistrarIdle ==
    [ pc |-> "idle", exit |-> 0, skipped |-> FALSE,
      server_address |-> None, model_name |-> <<>>, model_version |-> None,
      from_file |-> FALSE, s3_uri |-> <<>>, model_version_id |-> 0,
      conflict |-> FALSE, error |-> "", log |-> <<>> ]

\* the parsed command line and the run state of s3_uploader.py
CliIdle ==
    [ pc |-> "idle", exit |-> 0, action |-> "",
      results_dir |-> None, model_name |-> None, model_version |-> None,
      evaluation_id |-> None, s3_prefix |-> None,
      prefix |-> <<>>, todo |-> {}, attempted |-> {}, uploaded |-> {}, failed |-> {},
      returned |-> None, target |-> NoDir, evaluations |-> <<>>,
      error |-> "", log |-> <<>> ]

\* no evaluation upload has completed
NoUpload == [prefix |-> None, uploaded |-> {}]

EmptyBucket == [key \in {} |-> <<>>]

Running(r) == r.pc \notin {"idle", "done"}
NoTaskRunning == ~Running(up) /\ ~Running(cli) /\ \A p \in Procs : ~Running(reg[p])

\* sys.exit(code), or the interpreter ending on an uncaught exception (code 1)
Exit(r, code) == [r EXCEPT !.pc = "done", !.exit = code]
Logged(r, event) == [r EXCEPT !.log = Append(@, event)]
\* an exception is raised: the Registrar records the last one
Raised(r, exception) == [r EXCEPT !.error = exception]

\* no task has run yet: the shared workspace and the registry are empty
Fresh ==
    /\ model_s3_uri = None
    /\ model_version_id = None
    /\ registry = {}
    /\ first_id = None
    /\ up = UploaderIdle
    /\ reg = [p \in Procs |-> RegistrarIdle]
    /\ last_upload = NoUpload
    /\ cli = CliIdle

Init ==
    /\ env \in Envs
    /\ local_dir \in Dirs
    /\ bucket = EmptyBucket
    /\ Fresh

\* ---------------------------------------------------------- Model Uploader
\* s3_prefix = f"model-data/{model_name}/{model_version}"
ModelPrefix(model_name, model_version) ==
    <<"m", "o", "d", "e", "l", "-", "d", "a", "t", "a", "/">>
        \o model_name \o <<"/">> \o model_version

\* f"s3://{bucket_name}/{s3_prefix}"
S3Uri(bucket_name, s3_prefix) ==
    <<"s", "3", ":", "/", "/">> \o bucket_name \o <<"/">> \o s3_prefix

\* a key that keeps only the file name of the relative path
ObjectKeyBaseName(s3_prefix, relative_path) == s3_prefix \o <<"/", "f">>

\* f"{s3_prefix}/{relative_path}"
ObjectKey(s3_prefix, relative_path) == s3_prefix \o <<"/">> \o relative_path

\* os.environ.get('MODEL_VERSION', '1.0.0')
DefaultModelVersion == <<"1", ".", "0", ".", "0">>

\* the task is launched as a fresh process
UploaderStart ==
    /\ NoTaskRunning
    /\ up' = [UploaderIdle EXCEPT !.pc = "skip_check"]
    /\ reg' = [p \in Procs |-> RegistrarIdle]
    /\ cli' = CliIdle
    /\ UNCHANGED <<env, local_dir, model_s3_uri, model_version_id, registry, first_id,
                 bucket, last_upload>>

UploaderSkipCheck ==
    /\ up.pc = "skip_check"
    /\ up' = IF SkipRequested(env)
             THEN Exit([up EXCEPT !.skipped = TRUE], 0)
             ELSE [up EXCEPT !.pc = "config"]
    /\ UNCHANGED <<env, local_dir, model_s3_uri, model_version_id, registry, first_id, reg,
                 bucket, last_upload, cli>>

UploaderConfig ==
    /\ up.pc = "config"
    /\ LET r == [up EXCEPT !.bucket_name = env.S3_BUCKET,
                           !.access_key = env.AWS_ACCESS_KEY_ID,
                           !.secret_key = env.AWS_SECRET_ACCESS_KEY,
                           !.model_name = env.MODEL_NAME,
                           !.model_version = Get(env, "MODEL_VERSION",
                                                 DefaultModelVersion)]
       IN up' = IF Truthy(r.bucket_name) /\ Truthy(r.access_key)
                   /\ Truthy(r.secret_key) /\ Truthy(r.model_name)
                THEN [r EXCEPT !.pc = "connect"]
                ELSE Exit(r, 1)
    /\ UNCHANGED <<env, local_dir, model_s3_uri, model_version_id, registry, first_id, reg,
                 bucket, last_upload, cli>>

\* boto3.client(...) and head_bucket; the client reports a failure as ClientError
UploaderConnect ==
    /\ up.pc = "connect"
    /\ \E outcome \in {"ok", "ClientError"} :
        LET r == Logged(Logged(up, "client"), "head_bucket")
        IN up' = IF outcome = "ok" THEN [r EXCEPT !.pc = "model_dir"] ELSE Exit(r, 1)
    /\ UNCHANGED <<env, local_dir, model_s3_uri, model_version_id, registry, first_id, reg,
                 bucket, last_upload, cli>>

UploaderModelDir ==
    /\ up.pc = "model_dir"
    /\ LET d == local_dir IN
        up' = IF ~d.exists THEN Exit(up, 1)
              ELSE [up EXCEPT !.pc = "upload",
                              !.model_dir = d,
                              !.todo = DOMAIN d.files,
                              !.s3_prefix = ModelPrefix(up.model_name[1], up.model_version),
                              !.uploaded_count = 0,
                              !.total_size = 0]
    /\ UNCHANGED <<env, local_dir, model_s3_uri, model_version_id, registry, first_id, reg,
                 bucket, last_upload, cli>>

\* one iteration of the rglob loop, in whatever order the file system yields
UploaderUploadFile ==
    /\ up.pc = "upload"
    /\ \E relative_path \in up.todo, outcome \in {"ok", "ClientError"} :
        LET r == Logged([up EXCEPT !.todo = @ \ {relative_path}], "upload_file")
            obj == [ key |-> ObjectKey(up.s3_prefix, relative_path),
                     body |-> up.model_dir.files[relative_path],
                     model_name |-> up.model_name[1],
                     model_version |-> up.model_version,
                     source |-> "huggingface",
                     pipeline |-> "modelcar-pipeline" ]
        IN up' = IF outcome = "ok"
                 THEN [r EXCEPT !.puts = Append(@, obj),
                                !.total_size = @ + Len(up.model_dir.files[relative_path]),
                                !.uploaded_count = @ + 1]
                 ELSE Exit([r EXCEPT !.failed = @ \cup {relative_path}], 1)
    /\ UNCHANGED <<env, local_dir, model_s3_uri, model_version_id, registry, first_id, reg,
                 bucket, last_upload, cli>>

UploaderFinish ==
    /\ up.pc = "upload"
    /\ up.todo = {}
    /\ LET s3_uri == S3Uri(up.bucket_name[1], up.s3_prefix)
       IN /\ model_s3_uri' = Some(s3_uri)
          /\ up' = Exit([Logged(up, "write_model_s3_uri")
                           EXCEPT !.reported = <<up.uploaded_count, up.total_size>>], 0)
    /\ UNCHANGED <<env, local_dir, model_version_id, registry, first_id, reg,
                 bucket, last_upload, cli>>

UploaderNext ==
    \/ UploaderStart
    \/ UploaderSkipCheck
    \/ UploaderConfig
    \/ UploaderConnect
    \/ UploaderModelDir
    \/ UploaderUploadFile
    \/ UploaderFinish

\* ------------------------------------------------------------ the registry
\* The registry service as the Registrar's calls see it: one record per
\* (name, version), created atomically, never updated.
Held(name, version) == {v \in registry : v.name = name /\ v.version = version}

NewVersion(name, version, uri) ==
    [name |-> name, version |-> version, uri |-> uri, id |-> Cardinality(registry) + 1]

\* str.strip()
RECURSIVE Strip(_)
Strip(s) ==
    LET White == {" ", "\n", "\t"}
    IN IF s = <<>> THEN s
       ELSE IF Head(s) \in White THEN Strip(Tail(s))
       ELSE IF s[Len(s)] \in White THEN Strip(SubSeq(s, 1, Len(s) - 1))
       ELSE s

\* the Registrar's fallback: f"s3://{s3_bucket}/model-data/{model_name}/{model_version}"
FallbackS3Uri(s3_bucket, model_name, model_version) ==
    <<"s", "3", ":", "/", "/">> \o s3_bucket
        \o <<"/", "m", "o", "d", "e", "l", "-", "d", "a", "t", "a", "/">>
        \o model_name \o <<"/">> \o Fmt(model_version)

\* ------------------------------------------------------ Registry Registrar
RegistrarStart(p) ==
    /\ NoTaskRunning
    /\ reg' = [q \in Procs |-> IF q = p THEN [RegistrarIdle EXCEPT !.pc = "skip_check"]
                               ELSE RegistrarIdle]
    /\ up' = UploaderIdle
    /\ cli' = CliIdle
    /\ UNCHANGED <<env, local_dir, model_s3_uri, model_version_id, registry, first_id,
                 bucket, last_upload>>

RegistrarSkipCheck(p) ==
    /\ reg[p].pc = "skip_check"
    /\ reg' = [reg EXCEPT ![p] = IF SkipRequested(env)
                                 THEN Exit([@ EXCEPT !.skipped = TRUE], 0)
                                 ELSE [@ EXCEPT !.pc = "config"]]
    /\ UNCHANGED <<env, local_dir, model_s3_uri, model_version_id, registry, first_id, up,
                 bucket, last_upload, cli>>

\* lines 23-40: the namespace file (an unreadable file is an uncaught error),
\* the server address, the token path
RegistrarConfig(p) ==
    /\ reg[p].pc = "config"
    /\ \E namespace_readable \in BOOLEAN :
        reg' = [reg EXCEPT ![p] =
                  IF ~namespace_readable THEN Exit(Raised(@, "FileNotFoundError"), 1)
                  ELSE LET r == [@ EXCEPT !.server_address = env.MODEL_REGISTRY_URL]
                       IN IF ~Truthy(r.server_address) THEN Exit(r, 1)
                          ELSE [r EXCEPT !.pc = "client"]]
    /\ UNCHANGED <<env, local_dir, model_s3_uri, model_version_id, registry, first_id, up,
                 bucket, last_upload, cli>>

\* lines 42-48: ModelRegistry(server_address, port=443, ...)
RegistrarClient(p) ==
    /\ reg[p].pc = "client"
    /\ reg' = [reg EXCEPT ![p] = [Logged(@, "client") EXCEPT !.pc = "model_info"]]
    /\ UNCHANGED <<env, local_dir, model_s3_uri, model_version_id, registry, first_id, up,
                 bucket, last_upload, cli>>

\* lines 50-53: os.environ.get('MODEL_NAME').lower() raises on None
RegistrarModelInfo(p) ==
    /\ reg[p].pc = "model_info"
    /\ reg' = [reg EXCEPT ![p] =
                 IF env.MODEL_NAME = None THEN Exit(Raised(@, "AttributeError"), 1)
                 ELSE [@ EXCEPT !.model_name = Lower(env.MODEL_NAME[1]),
                                !.model_version = env.MODEL_VERSION,
                                !.pc = "locator"]]
    /\ UNCHANGED <<env, local_dir, model_s3_uri, model_version_id, registry, first_id, up,
                 bucket, last_upload, cli>>

\* lines 55-68
RegistrarLocator(p) ==
    /\ reg[p].pc = "locator"
    /\ reg' = [reg EXCEPT ![p] =
                 IF model_s3_uri # None
                 THEN [@ EXCEPT !.s3_uri = Strip(model_s3_uri[1]),
                                !.from_file = TRUE,
                                !.pc = "register"]
                 ELSE LET s3_bucket == env.S3_BUCKET
                      IN IF Truthy(s3_bucket)
                         THEN [@ EXCEPT !.s3_uri = FallbackS3Uri(s3_bucket[1],
                                                     reg[p].model_name,
                                                     reg[p].model_version),
                                        !.pc = "register"]
                         ELSE Exit(@, 1)]
    /\ UNCHANGED <<env, local_dir, model_s3_uri, model_version_id, registry, first_id, up,
                 bucket, last_upload, cli>>

\* the registration call against a registry that does not refuse a pair it
\* holds
RegistrarRegisterUnchecked(p) ==
    /\ reg[p].pc = "register"
    /\ LET r == Logged(reg[p], "register_model")
       IN \E outcome \in {"answer", "Exception"} :
            IF outcome = "Exception"
            THEN /\ reg' = [reg EXCEPT ![p] = Exit(Raised(r, "Exception"), 1)]
                 /\ UNCHANGED registry
            ELSE /\ registry' = registry \cup
                        {NewVersion(r.model_name, r.model_version, r.s3_uri)}
                 /\ reg' = [reg EXCEPT ![p] = [r EXCEPT !.pc = "print_details"]]
    /\ UNCHANGED <<env, local_dir, model_s3_uri, model_version_id, first_id, up,
                 bucket, last_upload, cli>>

\* lines 70-88: registry.register_model(...).  The registry refuses a pair it
\* holds with StoreError; any call may fail with another exception.
RegistrarRegister(p) ==
    /\ reg[p].pc = "register"
    /\ LET r == Logged(reg[p], "register_model")
           held == Held(r.model_name, r.model_version) # {}
       IN \E outcome \in {"answer", "Exception"} :
            IF outcome = "Exception"
            THEN /\ reg' = [reg EXCEPT ![p] = Exit(Raised(r, "Exception"), 1)]
                 /\ UNCHANGED registry
            ELSE IF held
            THEN /\ reg' = [reg EXCEPT ![p] = [Raised(r, "StoreError")
                                                 EXCEPT !.conflict = TRUE,
                                                        !.pc = "existing"]]
                 /\ UNCHANGED registry
            ELSE /\ registry' = registry \cup
                        {NewVersion(r.model_name, r.model_version, r.s3_uri)}
                 /\ reg' = [reg EXCEPT ![p] = [r EXCEPT !.pc = "print_details"]]
    /\ UNCHANGED <<env, local_dir, model_s3_uri, model_version_id, first_id, up,
                 bucket, last_upload, cli>>

\* registry.get_model_version(name, version).id: the call may raise, and on a
\* pair the registry does not hold it returns None, whose .id raises
LookupOutcomes(name, version) ==
    {[kind |-> "StoreError", id |-> 0], [kind |-> "Exception", id |-> 0]}
        \cup IF Held(name, version) = {}
             THEN {[kind |-> "Exception", id |-> 0]}
             ELSE {[kind |-> "ok", id |-> v.id] : v \in Held(name, version)}

\* lines 90-92: the lookup made while printing the dashboard URL
RegistrarPrintDetails(p) ==
    /\ reg[p].pc = "print_details"
    /\ \E got \in LookupOutcomes(reg[p].model_name, reg[p].model_version) :
        LET r == Logged(reg[p], "get_model_version")
        IN reg' = [reg EXCEPT ![p] =
                     CASE got.kind = "ok" -> [r EXCEPT !.pc = "get_id"]
                       [] got.kind = "StoreError" -> [Raised(r, "StoreError")
                                                        EXCEPT !.pc = "existing"]
                       [] OTHER -> Exit(Raised(r, "Exception"), 1)]
    /\ UNCHANGED <<env, local_dir, model_s3_uri, model_version_id, registry, first_id, up,
                 bucket, last_upload, cli>>

\* line 95
RegistrarGetId(p) ==
    /\ reg[p].pc = "get_id"
    /\ \E got \in LookupOutcomes(reg[p].model_name, reg[p].model_version) :
        LET r == Logged(reg[p], "get_model_version")
        IN reg' = [reg EXCEPT ![p] =
                     CASE got.kind = "ok" -> [r EXCEPT !.model_version_id = got.id,
                                                      !.pc = "save_id"]
                       [] got.kind = "StoreError" -> [Raised(r, "StoreError")
                                                        EXCEPT !.pc = "existing"]
                       [] OTHER -> Exit(Raised(r, "Exception"), 1)]
    /\ UNCHANGED <<env, local_dir, model_s3_uri, model_version_id, registry, first_id, up,
                 bucket, last_upload, cli>>

\* lines 96-102, after which the script ends (exit code 0)
RegistrarSaveId(p) ==
    /\ reg[p].pc = "save_id"
    /\ model_version_id' = Some(IntToStr(reg[p].model_version_id))
    /\ first_id' = model_version_id'
    /\ reg' = [reg EXCEPT ![p] = Exit(Logged(@, "write_model_version_id"), 0)]
    /\ UNCHANGED <<env, local_dir, model_s3_uri, registry, up,
                 bucket, last_upload, cli>>

\* a Registrar for which the conflict is fatal
RegistrarExistingFatal(p) ==
    /\ reg[p].pc = "existing"
    /\ reg' = [reg EXCEPT ![p] = Exit(@, 1)]
    /\ UNCHANGED <<env, local_dir, model_s3_uri, model_version_id, registry, first_id, up,
                 bucket, last_upload, cli>>

\* lines 104-111 and 119-121: the lookup of the existing version
RegistrarExisting(p) ==
    /\ reg[p].pc = "existing"
    /\ \E got \in LookupOutcomes(reg[p].model_name, reg[p].model_version) :
        LET r == Logged(reg[p], "get_model_version")
        IN reg' = [reg EXCEPT ![p] =
                     IF got.kind = "ok"
                     THEN [r EXCEPT !.model_version_id = got.id, !.pc = "save_existing"]
                     ELSE Exit(Raised(r, "Exception"), 1)]
    /\ UNCHANGED <<env, local_dir, model_s3_uri, model_version_id, registry, first_id, up,
                 bucket, last_upload, cli>>

\* lines 113-118
RegistrarSaveExisting(p) ==
    /\ reg[p].pc = "save_existing"
    /\ model_version_id' = Some(IntToStr(reg[p].model_version_id))
    /\ reg' = [reg EXCEPT ![p] = Exit(Logged(@, "write_model_version_id"), 0)]
    /\ UNCHANGED <<env, local_dir, model_s3_uri, registry, first_id, up,
                 bucket, last_upload, cli>>

RegistrarNext(p) ==
    \/ RegistrarStart(p)
    \/ RegistrarSkipCheck(p)
    \/ RegistrarConfig(p)
    \/ RegistrarClient(p)
    \/ RegistrarModelInfo(p)
    \/ RegistrarLocator(p)
    \/ RegistrarRegister(p)
    \/ RegistrarPrintDetails(p)
    \/ RegistrarGetId(p)
    \/ RegistrarSaveId(p)
    \/ RegistrarExisting(p)
    \/ RegistrarSaveExisting(p)

\* ------------------------------------------------ Evaluation Storage Utility
\* the characters of keys, in code-point order (the order S3 lists keys in)
Ascii == <<"-", ".", "/", "0", "1", "2", "3", "4", "5", "6", "7", "8", "9">>
            \o UpperCase \o <<"[", "]", "_">> \o LowerCase \o <<"{", "}">>

Code(c) == CHOOSE i \in 1..Len(Ascii) : Ascii[i] = c

\* a < b in the order of list_objects_v2
LexLess(a, b) ==
    \E i \in 1..(Len(b)) :
        /\ \A j \in 1..(i - 1) : j <= Len(a) /\ a[j] = b[j]
        /\ (i > Len(a) \/ Code(a[i]) < Code(b[i]))

First(keys) == CHOOSE k \in keys : \A other \in keys \ {k} : LexLess(k, other)

\* s3.upload_file: the object stored at key becomes body
Put(b, key, body) ==
    [k \in DOMAIN b \cup {key} |-> IF k = key THEN body ELSE b[k]]

\* the keys list_objects_v2 returns for Prefix=prefix
Matching(b, prefix) == {key \in DOMAIN b : StartsWith(key, prefix)}

\* the CommonPrefixes list_objects_v2 returns for Prefix=prefix, Delimiter='/'
CommonPrefixes(b, prefix) ==
    { prefix \o Split(SubSeq(key, Len(prefix) + 1, Len(key)), "/")[1] \o <<"/">> :
        key \in { k \in Matching(b, prefix) :
                    \E i \in (Len(prefix) + 1)..Len(k) : k[i] = "/" } }

\* str.lstrip('/')
RECURSIVE LStrip(_)
LStrip(s) == IF s # <<>> /\ Head(s) = "/" THEN LStrip(Tail(s)) ELSE s

\* relative_path = s3_key[len(s3_prefix):].lstrip('/')
RelativePath(s3_key, s3_prefix) ==
    LStrip(SubSeq(s3_key, Len(s3_prefix) + 1, Len(s3_key)))

\* datetime.now().strftime("%Y%m%d_%H%M%S")
Clock == {<<"2", "0", "2", "4", "0", "1", "3", "1", "_", "2", "3", "5", "9", "5", "9">>}

\* f"{model_name}_{model_version}_{timestamp}"
GeneratedId(model_name, model_version, timestamp) ==
    model_name \o <<"_">> \o model_version \o <<"_">> \o timestamp

\* s3_prefix = f"evaluations/{model_name}/{model_version}/{evaluation_id}"
EvalPrefix(model_name, model_version, evaluation_id) ==
    <<"e", "v", "a", "l", "u", "a", "t", "i", "o", "n", "s", "/">>
        \o model_name \o <<"/">> \o model_version \o <<"/">> \o evaluation_id

\* the listing prefix if the version were appended without a model name
ListPrefixFlat(model_name, model_version) ==
    <<"e", "v", "a", "l", "u", "a", "t", "i", "o", "n", "s", "/">>
        \o (IF Truthy(model_name) THEN model_name[1] \o <<"/">> ELSE <<>>)
        \o (IF Truthy(model_version) THEN model_version[1] \o <<"/">> ELSE <<>>)

\* the listing prefix of list_evaluations
ListPrefix(model_name, model_version) ==
    <<"e", "v", "a", "l", "u", "a", "t", "i", "o", "n", "s", "/">>
        \o (IF Truthy(model_name)
            THEN model_name[1] \o <<"/">>
                   \o (IF Truthy(model_version) THEN model_version[1] \o <<"/">>
                       ELSE <<>>)
            ELSE <<>>)

\* summary_key = f"{eval_prefix}cross_language_summary.json"
SummaryKey(eval_prefix) ==
    eval_prefix \o <<"c", "r", "o", "s", "s", "_", "l", "a", "n", "g", "u", "a", "g", "e",
                     "_", "s", "u", "m", "m", "a", "r", "y", ".", "j", "s", "o", "n">>

Unknown == <<"u", "n", "k", "n", "o", "w", "n">>

\* the entry synthesised when the summary cannot be fetched
FallbackEntry(eval_prefix) ==
    [s3_prefix |-> eval_prefix, model_name |-> Some(Unknown),
     model_version |-> Some(Unknown)]

\* json.loads on the documents of Summaries: an object without the keys
\* model_name and model_version, an array, and a text that is not JSON
Summaries == {<<"{", "}">>, <<"[", "]">>, <<"{">>}
JsonLoads(body) ==
    CASE body = <<"{", "}">> -> "dict"
      [] body = <<"[", "]">> -> "list"
      [] OTHER -> "JSONDecodeError"

\* ---- the command line
CliStartUpload ==
    /\ NoTaskRunning
    /\ \E results_dir \in {None, Some(<<"r">>)},
          model_name \in {None, Some(<<"m">>)},
          model_version \in {None, Some(<<"1">>)},
          evaluation_id \in {None, Some(<<"e">>)} :
        LET r == [CliIdle EXCEPT !.action = "upload",
                                 !.results_dir = results_dir,
                                 !.model_name = model_name,
                                 !.model_version = model_version,
                                 !.evaluation_id = evaluation_id]
        IN cli' = IF model_name = None \/ model_version = None
                  THEN Exit(r, 2)      \* argparse: a required option is missing
                  ELSE [r EXCEPT !.pc = "connect"]
    /\ up' = UploaderIdle
    /\ reg' = [p \in Procs |-> RegistrarIdle]
    /\ UNCHANGED <<env, local_dir, model_s3_uri, model_version_id, registry, first_id,
                   bucket, last_upload>>

CliStartDownload ==
    /\ NoTaskRunning
    /\ \E results_dir \in {None, Some(<<"t">>)},
          s3_prefix \in {None, Some(<<>>)}
                          \cup {Some(EvalPrefix(<<"m">>, <<"1">>, <<"e">>))}
                          \cup {Some(EvalPrefix(<<"m">>, <<"1">>,
                                                GeneratedId(<<"m">>, <<"1">>, now))) :
                                  now \in Clock} :
        cli' = [CliIdle EXCEPT !.action = "download",
                               !.results_dir = results_dir,
                               !.s3_prefix = s3_prefix,
                               !.pc = "connect"]
    /\ up' = UploaderIdle
    /\ reg' = [p \in Procs |-> RegistrarIdle]
    /\ UNCHANGED <<env, local_dir, model_s3_uri, model_version_id, registry, first_id,
                   bucket, last_upload>>

CliStartList ==
    /\ NoTaskRunning
    /\ \E model_name \in {None, Some(<<>>), Some(<<"m">>), Some(<<"n">>)},
          model_version \in {None, Some(<<"1">>), Some(<<"2">>)} :
        cli' = [CliIdle EXCEPT !.action = "list",
                               !.model_name = model_name,
                               !.model_version = model_version,
                               !.pc = "connect"]
    /\ up' = UploaderIdle
    /\ reg' = [p \in Procs |-> RegistrarIdle]
    /\ UNCHANGED <<env, local_dir, model_s3_uri, model_version_id, registry, first_id,
                   bucket, last_upload>>

\* main(), lines 318-328: S3EvaluationStorage(...) = boto3.client + head_bucket
CliConnect ==
    /\ cli.pc = "connect"
    /\ \E outcome \in {"ok", "ClientError"} :
        LET r == Logged(Logged(cli, "client"), "head_bucket")
        IN cli' = IF outcome = "ok" THEN [r EXCEPT !.pc = cli.action]
                  ELSE Exit(Raised(r, "ClientError"), 1)
    /\ UNCHANGED <<env, local_dir, model_s3_uri, model_version_id, registry, first_id,
                   up, reg, bucket, last_upload>>

\* ---- upload
\* main() lines 331-335 and upload_evaluation_results lines 99-114
CliUploadBegin ==
    /\ cli.pc = "upload"
    /\ \E now \in Clock :
        cli' = IF cli.results_dir = None THEN Exit(cli, 1)
               ELSE IF ~local_dir.exists THEN Exit(Raised(cli, "ValueError"), 1)
               ELSE LET evaluation_id ==
                          IF ~Truthy(cli.evaluation_id)
                          THEN GeneratedId(cli.model_name[1], cli.model_version[1], now)
                          ELSE cli.evaluation_id[1]
                    IN [cli EXCEPT !.evaluation_id = Some(evaluation_id),
                                   !.prefix = EvalPrefix(cli.model_name[1],
                                                         cli.model_version[1],
                                                         evaluation_id),
                                   !.todo = DOMAIN local_dir.files,
                                   !.pc = "uploading"]
    /\ UNCHANGED <<env, local_dir, model_s3_uri, model_version_id, registry, first_id,
                   up, reg, bucket, last_upload>>

\* the loop of lines 117-147 if a failed upload ended the run, as the
\* Uploader's does
CliUploadFileAborting ==
    /\ cli.pc = "uploading"
    /\ \E relative_path \in cli.todo, outcome \in {"ok", "ClientError"} :
        LET r == Logged([cli EXCEPT !.todo = @ \ {relative_path},
                                    !.attempted = @ \cup {relative_path}],
                        "upload_file")
            s3_key == ObjectKey(cli.prefix, relative_path)
        IN IF outcome = "ok"
           THEN /\ bucket' = Put(bucket, s3_key, local_dir.files[relative_path])
                /\ cli' = [r EXCEPT !.uploaded = @ \cup {relative_path}]
           ELSE /\ bucket' = bucket
                /\ cli' = Exit([r EXCEPT !.failed = @ \cup {relative_path}], 1)
    /\ UNCHANGED <<env, local_dir, model_s3_uri, model_version_id, registry, first_id,
                   up, reg, last_upload>>

\* one iteration of the loop of lines 117-147
CliUploadFile ==
    /\ cli.pc = "uploading"
    /\ \E relative_path \in cli.todo, outcome \in {"ok", "ClientError"} :
        LET r == Logged([cli EXCEPT !.todo = @ \ {relative_path},
                                    !.attempted = @ \cup {relative_path}],
                        "upload_file")
            s3_key == ObjectKey(cli.prefix, relative_path)
        IN IF outcome = "ok"
           THEN /\ bucket' = Put(bucket, s3_key, local_dir.files[relative_path])
                /\ cli' = [r EXCEPT !.uploaded = @ \cup {relative_path}]
           ELSE /\ bucket' = bucket
                /\ cli' = [r EXCEPT !.failed = @ \cup {relative_path}]
    /\ UNCHANGED <<env, local_dir, model_s3_uri, model_version_id, registry, first_id,
                   up, reg, last_upload>>

\* lines 149-152 and main() lines 343-344
CliUploadEnd ==
    /\ cli.pc = "uploading"
    /\ cli.todo = {}
    /\ cli' = Exit([cli EXCEPT !.returned = Some(cli.prefix)], 0)
    /\ last_upload' = [prefix |-> Some(cli.prefix), uploaded |-> cli.uploaded]
    /\ UNCHANGED <<env, local_dir, model_s3_uri, model_version_id, registry, first_id,
                   up, reg, bucket>>

\* ---- download
\* the directory after download_file of the objects `got` below s3_prefix
Downloaded(b, got, s3_prefix) ==
    [exists |-> TRUE,
     files |-> [path \in {RelativePath(k, s3_prefix) : k \in got} |->
                  b[CHOOSE k \in got : RelativePath(k, s3_prefix) = path]]]

\* main() lines 350-365 and download_evaluation_results, into a target
\* directory that is absent or empty
CliDownload ==
    /\ cli.pc = "download"
    /\ IF ~Truthy(cli.s3_prefix) \/ cli.results_dir = None
       THEN cli' = Exit(cli, 1)
       ELSE LET listed == Matching(bucket, cli.s3_prefix[1])
            IN \E failing \in SUBSET listed :
                 cli' = Exit([Logged(cli, "list_objects_v2")
                                EXCEPT !.prefix = cli.s3_prefix[1],
                                       !.attempted = listed,
                                       !.failed = failing,
                                       !.target = Downloaded(bucket, listed \ failing,
                                                             cli.s3_prefix[1])], 0)
    /\ UNCHANGED <<env, local_dir, model_s3_uri, model_version_id, registry, first_id,
                   up, reg, bucket, last_upload>>

\* ---- list
\* list_evaluations lines 221-235
CliListBegin ==
    /\ cli.pc = "list"
    /\ LET prefix == ListPrefix(cli.model_name, cli.model_version)
       IN cli' = [Logged(cli, "list_objects_v2")
                    EXCEPT !.prefix = prefix,
                           !.todo = CommonPrefixes(bucket, prefix),
                           !.pc = "listing"]
    /\ UNCHANGED <<env, local_dir, model_s3_uri, model_version_id, registry, first_id,
                   up, reg, bucket, last_upload>>

\* one iteration of the loop of lines 239-258; an exception other than
\* ClientError leaves list_evaluations and is caught in main() (lines 385-387)
CliListEntry ==
    /\ cli.pc = "listing"
    /\ cli.todo # {}
    /\ LET eval_prefix == First(cli.todo)
           summary_key == SummaryKey(eval_prefix)
           r == Logged([cli EXCEPT !.todo = @ \ {eval_prefix},
                                   !.attempted = @ \cup {eval_prefix}], "get_object")
           fallback == [r EXCEPT !.evaluations = Append(@, FallbackEntry(eval_prefix))]
       IN IF summary_key \notin DOMAIN bucket
          THEN cli' = fallback
          ELSE \E outcome \in {"ok", "ClientError"} :
                 cli' = IF outcome = "ClientError" THEN fallback
                        ELSE LET metadata == JsonLoads(bucket[summary_key])
                             IN IF metadata = "dict"
                                THEN [r EXCEPT !.evaluations =
                                        Append(@, [s3_prefix |-> eval_prefix,
                                                   model_name |-> None,
                                                   model_version |-> None])]
                                ELSE IF metadata = "list"
                                THEN Exit(Raised(r, "TypeError"), 1)
                                ELSE Exit(Raised(r, "JSONDecodeError"), 1)
    /\ UNCHANGED <<env, local_dir, model_s3_uri, model_version_id, registry, first_id,
                   up, reg, bucket, last_upload>>

\* line 260 and main() lines 374-383
CliListEnd ==
    /\ cli.pc = "listing"
    /\ cli.todo = {}
    /\ cli' = Exit(cli, 0)
    /\ UNCHANGED <<env, local_dir, model_s3_uri, model_version_id, registry, first_id,
                   up, reg, bucket, last_upload>>

CliUploadNext ==
    \/ CliStartUpload
    \/ CliConnect
    \/ CliUploadBegin
    \/ CliUploadFile
    \/ CliUploadEnd

\* ---- stored evaluation result sets
EvalNames == {<<"m">>, <<"n">>}
EvalVersions == {<<"1">>, <<"2">>}
EvalIds == {<<"e">>, <<"e", "0">>}

\* the objects of one result set: a result file and, possibly, a summary
StoredSet(model_name, model_version, evaluation_id, summary) ==
    LET prefix == EvalPrefix(model_name, model_version, evaluation_id) \o <<"/">>
        data == Put(EmptyBucket, prefix \o <<"f">>, <<"x">>)
    IN IF summary = None THEN data ELSE Put(data, SummaryKey(prefix), summary[1])

Union(a, b) == [k \in DOMAIN a \cup DOMAIN b |-> IF k \in DOMAIN a THEN a[k] ELSE b[k]]

\* the buckets that hold at most n result sets
RECURSIVE Buckets(_)
Buckets(n) ==
    IF n = 0 THEN {EmptyBucket}
    ELSE LET smaller == Buckets(n - 1)
         IN smaller \cup
            { Union(b, StoredSet(name, version, id, summary)) :
                b \in smaller,
                name \in EvalNames, version \in EvalVersions, id \in EvalIds,
                summary \in {None} \cup {Some(doc) : doc \in Summaries} }

\* ------------------------------------------------------------ the pipeline
\* The tasks of one pipeline run, one process at a time.
Next == UploaderNext \/ RegistrarNext(1)

Spec == Init /\ [][Next]_vars

\* nothing is set in the environment
NoEnv == [name \in DOMAIN EnvValues |-> None]

\* The evaluation utility's upload and download against a bucket that holds
\* at most one earlier result set of the same model and version.
InitEval ==
    /\ env = NoEnv
    /\ local_dir \in Dirs
    /\ bucket \in {EmptyBucket}
                   \cup {StoredSet(<<"m">>, <<"1">>, id, None) : id \in EvalIds}
    /\ Fresh

NextEval == CliUploadNext \/ CliStartDownload \/ CliDownload

SpecEval == InitEval /\ [][NextEval]_vars

\* The evaluation utility's listing of a bucket of up to MaxSets result sets.
InitList ==
    /\ env = NoEnv
    /\ local_dir = NoDir
    /\ bucket \in Buckets(MaxSets)
    /\ Fresh

NextList == CliStartList \/ CliConnect \/ CliListBegin \/ CliListEntry \/ CliListEnd

SpecList == InitList /\ [][NextList]_vars

\* The two uploads side by side: the Uploader and the evaluation upload on
\* the same directory tree, the Uploader's environment complete (MODEL_VERSION
\* left to its default).
InitUploads ==
    /\ Init
    /\ env.SKIP_TASK = None /\ env.SKIP_TASKS = None /\ env.MODEL_REGISTRY_URL = None
    /\ Truthy(env.S3_BUCKET) /\ Truthy(env.AWS_ACCESS_KEY_ID)
    /\ Truthy(env.AWS_SECRET_ACCESS_KEY)
    /\ env.MODEL_NAME = Some(<<"m">>) /\ env.MODEL_VERSION = None

NextUploads == UploaderNext \/ CliUploadNext

SpecUploads == InitUploads /\ [][NextUploads]_vars

\* A second Registrar run starts while another one is under way: the task is
\* launched again without coordination, on the same workspace and registry.
RegistrarStartConcurrent(p) ==
    /\ reg[p].pc = "idle"
    /\ \E q \in Procs \ {p} : Running(reg[q])
    /\ reg' = [reg EXCEPT ![p] = [RegistrarIdle EXCEPT !.pc = "skip_check"]]
    /\ UNCHANGED <<env, local_dir, model_s3_uri, model_version_id, registry, first_id,
                   up, bucket, last_upload, cli>>

\* Concurrent Registrar runs for one (model name, version): the registry URL,
\* the model name and the bucket are set, no skip is requested.
InitRace ==
    /\ Init
    /\ local_dir = NoDir
    /\ env.SKIP_TASK = None /\ env.SKIP_TASKS = None
    /\ Truthy(env.MODEL_REGISTRY_URL) /\ Truthy(env.S3_BUCKET)
    /\ env.MODEL_NAME # None
    /\ env.AWS_ACCESS_KEY_ID = None /\ env.AWS_SECRET_ACCESS_KEY = None

NextRace == \E p \in Procs : RegistrarNext(p) \/ RegistrarStartConcurrent(p)

SpecRace == InitRace /\ [][NextRace]_vars

\* ================================================================== claims

\* s3://{bucket}/model-data/{model_name}/{model_version}
Locator(bucket_name, model_name, model_version) ==
    <<"s", "3", ":", "/", "/">> \o bucket_name \o <<"/">>
        \o <<"m", "o", "d", "e", "l", "-", "d", "a", "t", "a">>
        \o <<"/">> \o model_name \o <<"/">> \o model_version

\* the version the Uploader works with under environment e
UploaderVersion(e) ==
    IF e.MODEL_VERSION = None THEN <<"1", ".", "0", ".", "0">> ELSE e.MODEL_VERSION[1]

\* C1: whenever the Registrar has reconstructed the locator because the file
\* model_s3_uri is absent, the reconstructed locator equals, character for
\* character, the locator the Uploader writes for the same S3_BUCKET,
\* MODEL_NAME and MODEL_VERSION.
C1_FallbackEqualsUploaderLocator ==
    \A p \in Procs :
        (reg[p].s3_uri # <<>> /\ ~reg[p].from_file)
            => reg[p].s3_uri = S3Uri(env.S3_BUCKET[1],
                                     ModelPrefix(env.MODEL_NAME[1],
                                                 Get(env, "MODEL_VERSION",
                                                     DefaultModelVersion)))

\* C2: a Registrar run whose register_model call met the "already exists"
\* StoreError and whose lookup of the existing version answered ends with
\* exit code 0, its last act being the write of that version's identifier to
\* model_version_id; the file then holds what the first-time run wrote.
C2_ConflictIsSuccess ==
    \A p \in Procs :
        (reg[p].conflict /\ reg[p].pc = "done")
            => IF reg[p].error = "StoreError"
               THEN /\ reg[p].exit = 0
                    /\ reg[p].log[Len(reg[p].log)] = "write_model_version_id"
                    /\ \E v \in registry :
                          /\ v.name = Lower(env.MODEL_NAME[1])
                          /\ v.version = env.MODEL_VERSION
                          /\ model_version_id = Some(IntToStr(v.id))
                    /\ first_id # None => model_version_id = first_id
               ELSE reg[p].exit = 1

C2_SecondRunWroteSameId ==
    /\ reg[1].conflict /\ reg[1].pc = "done" /\ reg[1].exit = 0
    /\ first_id # None /\ model_version_id = first_id

\* x is one of the comma-separated elements of s
IsElement(x, s) ==
    LET Wrap(t) == <<",">> \o t \o <<",">>
    IN /\ \A i \in 1..Len(x) : x[i] # ","
       /\ \E i \in 1..(Len(s) - Len(x) + 1) :
             SubSeq(Wrap(s), i, i + Len(x) + 1) = Wrap(x)

SkipListed ==
    /\ env.SKIP_TASK # None
    /\ env.SKIP_TASKS # None
    /\ IsElement(env.SKIP_TASK[1], env.SKIP_TASKS[1])

C3_SkipHonoured(r) ==
    /\ (SkipListed /\ r.pc \notin {"idle", "skip_check"})
          => r.pc = "done" /\ r.exit = 0 /\ r.skipped /\ r.log = <<>>
    /\ r.skipped => r.pc = "done" /\ r.exit = 0 /\ r.log = <<>>
    /\ env.SKIP_TASK = None => ~r.skipped

C3_SkipStepWritesNothing ==
    (up'.skipped \/ \E p \in Procs : reg'[p].skipped)
        => UNCHANGED <<model_s3_uri, model_version_id, registry>>

\* C3: when SKIP_TASK is one of the comma-separated elements of SKIP_TASKS,
\* the Uploader and the Registrar each end with exit code 0 having constructed
\* no client, made no network call and written no file; a skipping step leaves
\* the locator file, the identifier file and the registry unchanged; and with
\* SKIP_TASK unset no task is skipped.
C3_SkipListSkips ==
    /\ [](C3_SkipHonoured(up) /\ \A p \in Procs : C3_SkipHonoured(reg[p]))
    /\ [][C3_SkipStepWritesNothing]_vars

C3_RegistrarSkipped ==
    SkipListed /\ reg[1].pc = "done" /\ reg[1].skipped

\* C4: a non-skipped Uploader or Registrar run that lacks a required
\* environment variable constructs no client and makes no network call, and
\* ends with exit code 1.
C4_MissingConfigFailsBeforeClient ==
    /\ (~up.skipped /\ up.pc \notin {"idle", "skip_check"}
          /\ (env.S3_BUCKET = None \/ env.AWS_ACCESS_KEY_ID = None
                \/ env.AWS_SECRET_ACCESS_KEY = None \/ env.MODEL_NAME = None))
          => up.log = <<>> /\ (up.pc = "done" => up.exit = 1)
    /\ \A p \in Procs :
          (~reg[p].skipped /\ reg[p].pc \notin {"idle", "skip_check"}
             /\ (env.MODEL_REGISTRY_URL = None \/ env.MODEL_NAME = None
                   \/ env.MODEL_VERSION = None
                   \/ (model_s3_uri = None /\ env.S3_BUCKET = None)))
             => reg[p].log = <<>> /\ (reg[p].pc = "done" => reg[p].exit = 1)

\* n copies of event e
Repeat(e, n) == [i \in 1..n |-> e]

\* C10: a non-skipped Uploader run that ends with exit code 0 on a directory of
\* N regular files totalling B bytes has uploaded exactly N objects, one per
\* file at key model-data/{model_name}/{model_version}/{relative_path} with
\* the file's bytes, reports N and B, and has written the locator
\* s3://{bucket}/model-data/{model_name}/{model_version}; the locator file is
\* written only after all N uploads.
C10_UploadComplete ==
    LET files == up.model_dir.files
        N == Cardinality(DOMAIN files)
        prefix == <<"m", "o", "d", "e", "l", "-", "d", "a", "t", "a", "/">>
                     \o env.MODEL_NAME[1] \o <<"/">> \o UploaderVersion(env) \o <<"/">>
    IN /\ (up.pc = "done" /\ up.exit = 0 /\ ~up.skipped) =>
            /\ Len(up.puts) = N
            /\ \A path \in DOMAIN files :
                  \E i \in 1..N : /\ up.puts[i].key = prefix \o path
                                  /\ up.puts[i].body = files[path]
            /\ up.reported = <<N, DirBytes(up.model_dir)>>
            /\ model_s3_uri = Some(Locator(env.S3_BUCKET[1], env.MODEL_NAME[1],
                                           UploaderVersion(env)))
            /\ up.log = <<"client", "head_bucket">> \o Repeat("upload_file", N)
                           \o <<"write_model_s3_uri">>
       /\ (\E i \in 1..Len(up.log) : up.log[i] = "write_model_s3_uri") =>
            up.pc = "done" /\ up.exit = 0 /\ Len(up.puts) = N

C10_TwoFilesUploaded ==
    /\ up.pc = "done" /\ up.exit = 0 /\ ~up.skipped
    /\ Cardinality(DOMAIN up.model_dir.files) >= 2
    /\ up.reported[2] > up.reported[1]

\* ------------------------------------------------------------------- C5
Count(log, event) == Cardinality({i \in DOMAIN log : log[i] = event})

\* an evaluation upload in which one file failed is not ended by it: it ends
\* only with every file attempted, and then returns the prefix
C5_EvaluationUploadGoesOn ==
    (cli.action = "upload" /\ Cardinality(cli.failed) = 1) =>
        /\ cli.pc \in {"uploading", "done"}
        /\ cli.attempted \cup cli.todo = DOMAIN local_dir.files
        /\ cli.pc = "done" =>
             /\ cli.attempted = DOMAIN local_dir.files
             /\ cli.uploaded = DOMAIN local_dir.files \ cli.failed
             /\ Count(cli.log, "upload_file") = Cardinality(DOMAIN local_dir.files)
             /\ cli.exit = 0
             /\ cli.returned = Some(EvalPrefix(cli.model_name[1], cli.model_version[1],
                                               cli.evaluation_id[1]))

\* the Uploader ends at the file whose upload failed
C5_UploaderStops ==
    up.failed # {} =>
        /\ up.pc = "done" /\ up.exit = 1
        /\ Cardinality(up.failed) = 1
        /\ up.log[Len(up.log)] = "upload_file"
        /\ Count(up.log, "upload_file") = Len(up.puts) + 1
        /\ Count(up.log, "write_model_s3_uri") = 0
        /\ up.reported = <<>>

C5_FailedStepWritesNoLocator == up'.failed # {} => model_s3_uri' = model_s3_uri

C6_DownloadedLastUpload ==
    /\ cli.action = "download" /\ cli.pc = "done" /\ cli.exit = 0
    /\ cli.failed = {}
    /\ last_upload.prefix # None
    /\ cli.s3_prefix = last_upload.prefix
    /\ Matching(bucket, last_upload.prefix[1] \o <<"/">>)
         = {ObjectKey(last_upload.prefix[1], path) : path \in last_upload.uploaded}

\* C6: an evaluation upload followed by a download of the returned prefix
\* into an empty target directory leaves in the target exactly the files
\* whose upload succeeded, at their relative paths and with their contents,
\* and no other file, also when the bucket holds a result set whose
\* evaluation id has the uploaded one as a string prefix.
C6_DownloadReproducesUpload ==
    C6_DownloadedLastUpload =>
        cli.target.files = [path \in last_upload.uploaded |-> local_dir.files[path]]

\* ------------------------------------------------------------------- C7
\* the entries of a finished listing, as a set
Entries == {cli.evaluations[i] : i \in DOMAIN cli.evaluations}

\* the summary of a grouping is missing or is not a JSON document
NoUsableSummary(eval_prefix) ==
    \/ SummaryKey(eval_prefix) \notin DOMAIN bucket
    \/ JsonLoads(bucket[SummaryKey(eval_prefix)]) = "JSONDecodeError"

\* C7: a listing that got as far as listing the groupings never aborts on a
\* grouping's summary: it ends with exit code 0 and one entry per grouping,
\* the fallback entry for each grouping whose summary is missing or cannot
\* be parsed.
C7_ListingNeverAborts ==
    (cli.action = "list" /\ cli.pc = "done" /\ Count(cli.log, "list_objects_v2") = 1) =>
        /\ cli.exit = 0
        /\ Len(cli.evaluations) = Cardinality(CommonPrefixes(bucket, cli.prefix))
        /\ \A eval_prefix \in CommonPrefixes(bucket, cli.prefix) :
             NoUsableSummary(eval_prefix) => FallbackEntry(eval_prefix) \in Entries

\* ------------------------------------------------------------------- C8
\* the filters of the listing do not exclude the result sets of this model
\* name and version: no filter, the name only, or the name and the version
NotExcluded(model_name, model_version) ==
    \/ cli.model_name = None /\ cli.model_version = None
    \/ cli.model_name = Some(model_name) /\ cli.model_version = None
    \/ cli.model_name = Some(model_name) /\ cli.model_version = Some(model_version)

\* C8: a stored result set without a summary appears in every finished
\* listing whose filters do not exclude it, as the entry tagged with the
\* result set's storage prefix and model_name, model_version 'unknown'.
C8_SetWithoutSummaryListed ==
    (cli.action = "list" /\ cli.pc = "done" /\ cli.exit = 0) =>
        \A model_name \in EvalNames, model_version \in EvalVersions,
           evaluation_id \in EvalIds :
            LET stored == EvalPrefix(model_name, model_version, evaluation_id) \o <<"/">>
            IN (/\ Matching(bucket, stored) # {}
                /\ SummaryKey(stored) \notin DOMAIN bucket
                /\ NotExcluded(model_name, model_version))
               => FallbackEntry(stored) \in Entries

\* ------------------------------------------------------------------- C9
\* the groupings of an unfiltered listing, from the keys' first segment
\* below evaluations/
TopGroupings ==
    { <<"e", "v", "a", "l", "u", "a", "t", "i", "o", "n", "s", "/">>
        \o Split(key, "/")[2] \o <<"/">> :
        key \in { k \in DOMAIN bucket :
                    /\ Len(Split(k, "/")) >= 3
                    /\ Split(k, "/")[1]
                         = <<"e", "v", "a", "l", "u", "a", "t", "i", "o", "n", "s">> } }

\* the listing has asked the bucket for its groupings
Listed == cli.action = "list" /\ Count(cli.log, "list_objects_v2") = 1

\* C9: every entry of a listing filtered by model name m has an s3_prefix
\* that starts with evaluations/m/, every entry of a listing filtered by m
\* and version v has one that starts with evaluations/m/v/, and a version
\* given without a model name does not narrow the listing: the call lists
\* what the unfiltered call lists.
C9_FiltersNarrowByPrefix ==
    Listed =>
        /\ (Truthy(cli.model_name) /\ ~Truthy(cli.model_version)) =>
             \A entry \in Entries :
               StartsWith(entry.s3_prefix,
                          <<"e", "v", "a", "l", "u", "a", "t", "i", "o", "n", "s", "/">>
                            \o cli.model_name[1] \o <<"/">>)
        /\ (Truthy(cli.model_name) /\ Truthy(cli.model_version)) =>
             \A entry \in Entries :
               StartsWith(entry.s3_prefix,
                          <<"e", "v", "a", "l", "u", "a", "t", "i", "o", "n", "s", "/">>
                            \o cli.model_name[1] \o <<"/">>
                            \o cli.model_version[1] \o <<"/">>)
        /\ ~Truthy(cli.model_name) =>
             /\ cli.prefix = <<"e", "v", "a", "l", "u", "a", "t", "i", "o", "n", "s", "/">>
             /\ cli.attempted \cup cli.todo = TopGroupings
             /\ {entry.s3_prefix : entry \in Entries} = cli.attempted
             /\ (cli.pc = "done" /\ cli.exit = 0) =>
                  /\ cli.attempted = TopGroupings
                  /\ Len(cli.evaluations) = Cardinality(TopGroupings)

\* A listing filtered by model name m ended with the one result set of m,
\* while the bucket also holds a result set of another model.
C9_ListedOneModelOfTwo ==
    /\ cli.action = "list" /\ cli.pc = "done" /\ cli.exit = 0
    /\ cli.model_name = Some(<<"m">>) /\ cli.model_version = None
    /\ Len(cli.evaluations) = 1
    /\ \E key \in DOMAIN bucket :
         StartsWith(key, <<"e", "v", "a", "l", "u", "a", "t", "i", "o", "n", "s", "/", "n", "/">>)

\* ------------------------------------------------------------------ C11
\* the run called register_model and has ended
RegistrationEnded(r) == r.pc = "done" /\ Count(r.log, "register_model") = 1

\* an exception other than the conflict reported by register_model was
\* raised in the run
OtherErrorRaised(r) ==
    \/ ~r.conflict /\ r.error # ""
    \/ r.conflict /\ r.error # "StoreError"

\* the identifier file holds the identifier the registry has for the pair
FileHoldsRegistryId(r) ==
    /\ Held(r.model_name, r.model_version) # {}
    /\ \A v \in Held(r.model_name, r.model_version) :
         model_version_id = Some(IntToStr(v.id))

\* C11: in the Registrar every error other than the conflict reported by the
\* registration call is fatal: a run in which the registration call, the
\* lookup after a conflict or a lookup after a first-time registration
\* raised another error ends with exit code 1 and without writing the
\* identifier file, and a run exits 0 only when the identifier file holds
\* the identifier the registry has for (model name, version).
C11_OtherErrorsAreFatal ==
    \A p \in Procs :
        RegistrationEnded(reg[p]) =>
            /\ OtherErrorRaised(reg[p]) =>
                 /\ reg[p].exit = 1
                 /\ Count(reg[p].log, "write_model_version_id") = 0
            /\ reg[p].exit = 0 => FileHoldsRegistryId(reg[p])

\* ------------------------------------------------------------------ C12
\* every call of the run was answered: nothing was raised but the conflict
\* reported by register_model
Answered(r) == r.error = "" \/ (r.conflict /\ r.error = "StoreError")

\* the two runs were under way together and both have ended, every call
\* answered
BothRunsEnded ==
    \A p \in Procs : RegistrationEnded(reg[p]) /\ Answered(reg[p])

\* C12: two Registrar runs for the same (model name, version) that execute
\* concurrently against a registry that creates a version atomically both
\* exit 0 under every interleaving, the registry holds exactly one version
\* record for the pair, and the identifier file holds that record's
\* identifier whichever run wrote last; the registry never holds a second
\* record for the pair at any moment.
C12_ConcurrentRunsAgree ==
    /\ \A p \in Procs :
         Cardinality(Held(reg[p].model_name, reg[p].model_version)) <= 1
    /\ \A p \in Procs :
         Count(reg[p].log, "write_model_version_id") = 1 => FileHoldsRegistryId(reg[p])
    /\ BothRunsEnded =>
         \A p \in Procs :
            /\ reg[p].exit = 0
            /\ Cardinality(Held(reg[p].model_name, reg[p].model_version)) = 1
            /\ Count(reg[p].log, "write_model_version_id") = 1
            /\ FileHoldsRegistryId(reg[p])

\* Two runs that were under way together have both exited 0: run 2 created
\* the version, run 1 met the conflict, and each wrote the identifier file.
C12_CreatorAndLoserBothDone ==
    /\ BothRunsEnded
    /\ reg[1].conflict /\ ~reg[2].conflict
    /\ reg[1].exit = 0 /\ reg[2].exit = 0
    /\ Count(reg[1].log, "write_model_version_id") = 1
    /\ Count(reg[2].log, "write_model_version_id") = 1

====
